---------------------------- MODULE Spec2Model ----------------------------
(***************************************************************************)
(* State machine of the roulette page src/pages/v1/scratch/[id].tsx        *)
(* (component RouletteBoxPage): the React state of one game session, the   *)
(* two click handlers, the play request, the reveal timer, the confetti    *)
(* timer and the balance refresh.                                          *)
(*                                                                         *)
(* Strings that hold numbers ("1500") are modelled by the number; a        *)
(* missing, null or empty string is NoValue; parseFloat of it is NaN.      *)
(* A handler is a closure over the render that created it: what it reads   *)
(* from React state after an await (gameResult, token, the prizes) is the  *)
(* value of the render in which the button was clicked, and is carried in  *)
(* the record of the pending call or timer.                                *)
(***************************************************************************)
EXTENDS Integers, Sequences, FiniteSets, TLC

(***************************************************************************)
(* Bounds of the model.                                                    *)
(***************************************************************************)
\* Longest catalog (scratchCardData.prizes) the catalog request answers with.
MaxPrizes == 2
\* Balance refresh requests that may be unanswered at the same time.
MaxRefresh == 1
\* Reels up to this length are shuffled into every permutation.
FullShuffleLen == 3

(***************************************************************************)
(* Values.                                                                 *)
(***************************************************************************)
\* A missing / null / empty string (falsy in `a || b`).
NoValue == -1
\* parseFloat of a string that holds no number.
NaN == -2

\* `a || b` on strings: the first one that is not empty.
OrElse(a, b) == IF a # NoValue THEN a ELSE b

\* parseFloat of a numeric string, or NaN.
ParseFloat(s) == IF s = NoValue THEN NaN ELSE s

\* a === b on numbers: NaN equals nothing, itself included.
StrictEq(a, b) == a # NaN /\ b # NaN /\ a = b

\* a >= b on numbers: every comparison with NaN is false.
Geq(a, b) == a # NaN /\ b # NaN /\ a >= b

(***************************************************************************)
(* The prizes the catalog request and the play request may name: a common  *)
(* and a legendary money prize, two products whose value and redemption    *)
(* value differ (each one's value is the other's redemption value), and an *)
(* inactive prize.                                                         *)
(***************************************************************************)
PrizePool ==
  << [id |-> 1, type |-> "MONEY",   value |-> 5,    redemption_value |-> NoValue, is_active |-> TRUE],
     [id |-> 2, type |-> "MONEY",   value |-> 1500, redemption_value |-> NoValue, is_active |-> TRUE],
     [id |-> 3, type |-> "PRODUCT", value |-> 1000, redemption_value |-> 100,     is_active |-> TRUE],
     [id |-> 4, type |-> "PRODUCT", value |-> 100,  redemption_value |-> 1000,    is_active |-> TRUE],
     [id |-> 5, type |-> "MONEY",   value |-> 2500, redemption_value |-> NoValue, is_active |-> FALSE] >>

PrizeIds == 1..Len(PrizePool)

\* The value shown for a prize of its category (lines 225, 635, 641).
EffectiveValue(p) ==
  IF p.type = "MONEY" THEN ParseFloat(OrElse(p.value, 0))
  ELSE ParseFloat(OrElse(p.redemption_value, 0))

(***************************************************************************)
(* getRarityFromValue, lines 195-200.                                      *)
(***************************************************************************)
LegendaryMin == 1000
EpicMin == 100
RareMin == 10

\* Mutant of getRarityFromValue: the lower bounds are open.
getRarityFromValue_Open(value) ==
  IF Geq(value, LegendaryMin + 1) THEN "legendary"
  ELSE IF Geq(value, EpicMin + 1) THEN "epic"
  ELSE IF Geq(value, RareMin + 1) THEN "rare"
  ELSE "common"

getRarityFromValue(value) ==
  IF Geq(value, LegendaryMin) THEN "legendary"
  ELSE IF Geq(value, EpicMin) THEN "epic"
  ELSE IF Geq(value, RareMin) THEN "rare"
  ELSE "common"

\* Mutant of Repetitions: the counts of rare and epic are exchanged.
Repetitions_Swapped(rarity) ==
  CASE rarity = "common" -> 8
    [] rarity = "rare" -> 2
    [] rarity = "epic" -> 4
    [] rarity = "legendary" -> 1

\* The switch of lines 212-218.
Repetitions(rarity) ==
  CASE rarity = "common" -> 8
    [] rarity = "rare" -> 4
    [] rarity = "epic" -> 2
    [] rarity = "legendary" -> 1

(***************************************************************************)
(* generateRouletteItems, lines 203-234: the cells before the shuffle.     *)
(***************************************************************************)
\* The cells of one prize (lines 208-229). Every prize of the array is
\* expanded: the code does not read is_active.
CellsOf(prize) ==
  LET value == ParseFloat(OrElse(OrElse(prize.value, prize.redemption_value), 0))
      rarity == getRarityFromValue(value)
  IN [i \in 1..Repetitions(rarity) |->
        [id |-> <<prize.id, i - 1>>,
         value |-> IF prize.type = "MONEY" THEN prize.value
                   ELSE OrElse(prize.redemption_value, 0),
         type |-> prize.type,
         isWinning |-> FALSE,
         rarity |-> rarity]]

RECURSIVE ExpandPrizes(_)
ExpandPrizes(prizes) ==
  IF prizes = <<>> THEN <<>>
  ELSE CellsOf(Head(prizes)) \o ExpandPrizes(Tail(prizes))


\* Math.random() - 0.5 as the comparator of sort (line 233) leaves the order
\* to chance. A reel of at most FullShuffleLen cells comes out in any of its
\* permutations; of a longer reel the model takes the rotations of the reel and
\* of its reverse, which bring every cell to every index and every pair of
\* cells into both orders.
Rotate(s, k) == [i \in 1..Len(s) |-> s[((i + k - 1) % Len(s)) + 1]]

Reverse(s) == [i \in 1..Len(s) |-> s[Len(s) + 1 - i]]

Shuffles(s) ==
  IF Len(s) <= FullShuffleLen
  THEN {[i \in 1..Len(s) |-> s[p[i]]] : p \in Permutations(1..Len(s))}
  ELSE {Rotate(s, k) : k \in 0..(Len(s) - 1)}
       \cup {Rotate(Reverse(s), k) : k \in 0..(Len(s) - 1)}

generateRouletteItems(prizes) == Shuffles(ExpandPrizes(prizes))

(***************************************************************************)
(* The render sorts scratchCardData.prizes in place by effective value     *)
(* (Array.prototype.sort, stable, lines 633-638), so every handler sees    *)
(* the sorted array.                                                       *)
(***************************************************************************)
RECURSIVE InsertPrize(_, _)
InsertPrize(p, sorted) ==
  IF sorted = <<>> THEN <<p>>
  ELSE IF EffectiveValue(p) < EffectiveValue(Head(sorted))
       THEN <<p>> \o sorted
       ELSE <<Head(sorted)>> \o InsertPrize(p, Tail(sorted))

RECURSIVE SortPrizes(_)
SortPrizes(prizes) ==
  IF prizes = <<>> THEN <<>>
  ELSE InsertPrize(prizes[Len(prizes)], SortPrizes(SubSeq(prizes, 1, Len(prizes) - 1)))

\* The catalogs the catalog request may answer with: up to MaxPrizes prizes
\* of the pool, no prize twice, in any order.
ApiCatalogs ==
  {[i \in DOMAIN ids |-> PrizePool[ids[i]]] :
     ids \in {f \in UNION {[1..m -> PrizeIds] : m \in 0..MaxPrizes} :
                \A i, j \in DOMAIN f : i # j => f[i] # f[j]}}

(***************************************************************************)
(* The play request's answers (GameResult, lines 72-82). prize is the id   *)
(* of a prize of the pool, 0 for null; NullResult is gameResult = null.    *)
(***************************************************************************)
NullResult == [isNull |-> TRUE, isWinner |-> FALSE, amountWon |-> NoValue, prize |-> 0]

LossResult == [isNull |-> FALSE, isWinner |-> FALSE, amountWon |-> 0, prize |-> 0]

WinResult(pid) ==
  [isNull |-> FALSE, isWinner |-> TRUE,
   amountWon |-> EffectiveValue(PrizePool[pid]), prize |-> pid]

\* A win that names no prize (prize: GamePrize | null).
WinNoPrize == [isNull |-> FALSE, isWinner |-> TRUE, amountWon |-> 10, prize |-> 0]

GameResults == {LossResult, WinNoPrize} \cup {WinResult(pid) : pid \in PrizeIds}

\* winningItem = null, and a targetItem that is null or undefined.
NoItem ==
  [id |-> <<0, 0>>, value |-> NoValue, type |-> "none", isWinning |-> FALSE,
   rarity |-> "common"]

(***************************************************************************)
(* The choice of the target cell, handleOpenBox lines 315-332.             *)
(***************************************************************************)
\* The predicate of items.find, lines 319-321.
MatchesPrize(item, prize) ==
  /\ item.type = prize.type
  /\ StrictEq(ParseFloat(item.value),
              ParseFloat(OrElse(OrElse(prize.value, prize.redemption_value), 0)))

\* items.find(...) || null: the index of the first matching cell, 0 for null.
FindMatch(items, prize) ==
  IF \E i \in DOMAIN items : MatchesPrize(items[i], prize)
  THEN CHOOSE i \in DOMAIN items :
         /\ MatchesPrize(items[i], prize)
         /\ \A j \in 1..(i - 1) : ~MatchesPrize(items[j], prize)
  ELSE 0

\* Mutant of TargetIndexes: a loss lands on any cell of the reel.
TargetIndexes_AnyCell(result, items) ==
  IF result.isWinner /\ result.prize # 0
  THEN {FindMatch(items, PrizePool[result.prize])}
  ELSE IF items # <<>> THEN DOMAIN items ELSE {0}

\* The indexes targetItem may come from (0: null or undefined).
TargetIndexes(result, items) ==
  IF result.isWinner /\ result.prize # 0
  THEN {FindMatch(items, PrizePool[result.prize])}
  ELSE LET commonItems == {i \in DOMAIN items : items[i].rarity = "common"}
       IN  IF commonItems # {} THEN commonItems
           ELSE IF items # <<>> THEN {1}
           ELSE {0}

\* items.findIndex(item => item.id === targetItem.id), line 349, from 0.
FindIndexById(items, id) ==
  IF \E i \in DOMAIN items : items[i].id = id
  THEN (CHOOSE i \in DOMAIN items :
          /\ items[i].id = id
          /\ \A j \in 1..(i - 1) : items[j].id # id) - 1
  ELSE -1

\* Lines 350-359.
itemWidth == 120
containerWidth == 500
fullRotations == 3
duration == 4000

\* Mutant of FinalRotationOf: the half cell of the centring is left out.
FinalRotationOf_NoHalfCell(items, targetIndex) ==
  LET totalWidth == Len(items) * itemWidth
      finalPosition == (targetIndex * itemWidth) - (containerWidth \div 2)
  IN  (fullRotations * totalWidth) + finalPosition

FinalRotationOf(items, targetIndex) ==
  LET totalWidth == Len(items) * itemWidth
      finalPosition == (targetIndex * itemWidth) - (containerWidth \div 2) + (itemWidth \div 2)
  IN  (fullRotations * totalWidth) + finalPosition

(***************************************************************************)
(* State: the useState cells of RouletteBoxPage (lines 132-154), the       *)
(* requests in flight and the timers pending.                              *)
(***************************************************************************)
VARIABLES
  user,             \* useAuth().user is set (line 132)
  token,            \* useAuth().token is set (line 132)
  scratchCardData,  \* [loaded, prizes]: loaded = FALSE is null (line 137)
  error,            \* the catalog request failed (line 139)
  gameState,        \* line 142
  rouletteItems,    \* line 143
  showConfetti,     \* line 144
  hasWon,           \* line 145
  totalWinnings,    \* line 146
  gameResult,       \* line 147
  playingGame,      \* line 148
  winningItem,      \* line 149
  isSpinning,       \* line 152
  spinDuration,     \* line 153
  finalRotation,    \* line 154
  playCalls,        \* calls of handleOpenBox suspended at `await playGame`
  spinTimers,       \* pending setTimeout callbacks of startRouletteSpin
  confettiTimers,   \* pending setTimeout callbacks of line 376
  refreshCalls,     \* profile requests of refreshUserBalance in flight
  toast,            \* the last toast.error of line 338
  probe             \* a call of a pure function: its input and its result

\* The state of the page.
pageVars ==
  <<user, token, scratchCardData, error, gameState, rouletteItems, showConfetti,
    hasWon, totalWinnings, gameResult, playingGame, winningItem, isSpinning,
    spinDuration, finalRotation, playCalls, spinTimers, confettiTimers,
    refreshCalls, toast>>

vars == <<pageVars, probe>>

authVars == <<user, token>>
reelVars == <<rouletteItems, isSpinning, finalRotation>>
spinVars == <<showConfetti, hasWon, totalWinnings, gameResult, winningItem>>
refreshVars == <<confettiTimers, refreshCalls>>

\* A confetti timer runs 5000 ms and a spin at least 4000 ms (lines 364,
\* 376): when a spin is revealed, at most one older confetti timer is pending.
MaxConfettiTimers == 2

RemoveAt(s, k) == [i \in 1..(Len(s) - 1) |-> IF i < k THEN s[i] ELSE s[i + 1]]

\* Line 133.
isAuthenticated == user

\* The auth context is what it is when the page opens: with or without a
\* user, with or without a token. Nothing of this page changes it but
\* updateUser, which replaces one user object by another.

\* No pure function is being called.
NoProbe == [fn |-> "none", value |-> 0, prizes |-> <<>>, done |-> FALSE,
            rarity |-> "none", items |-> <<>>]

Init ==
  /\ probe = NoProbe
  /\ user \in BOOLEAN
  /\ token \in BOOLEAN
  /\ scratchCardData = [loaded |-> FALSE, prizes |-> <<>>]
  /\ error = FALSE
  /\ gameState = "idle"
  /\ rouletteItems = <<>>
  /\ showConfetti = FALSE
  /\ hasWon = FALSE
  /\ totalWinnings = 0
  /\ gameResult = NullResult
  /\ playingGame = FALSE
  /\ winningItem = NoItem
  /\ isSpinning = FALSE
  /\ spinDuration = 0
  /\ finalRotation = 0
  /\ playCalls = <<>>
  /\ spinTimers = <<>>
  /\ confettiTimers = 0
  /\ refreshCalls = 0
  /\ toast = "none"

(***************************************************************************)
(* fetchScratchCardData, lines 166-185, and the sort of the next render.   *)
(***************************************************************************)
fetchScratchCardDataOk ==
  /\ ~scratchCardData.loaded /\ ~error
  /\ \E prizes \in ApiCatalogs :
       scratchCardData' = [loaded |-> TRUE, prizes |-> SortPrizes(prizes)]
  /\ UNCHANGED <<probe, authVars, error, gameState, reelVars, spinVars, playingGame,
                 spinDuration, playCalls, spinTimers, refreshVars, toast>>

fetchScratchCardDataFails ==
  /\ ~scratchCardData.loaded /\ ~error
  /\ error' = TRUE
  /\ UNCHANGED <<probe, authVars, scratchCardData, gameState, reelVars, spinVars,
                 playingGame, spinDuration, playCalls, spinTimers, refreshVars,
                 toast>>

(***************************************************************************)
(* The buttons: a handler runs when its button is rendered and enabled.    *)
(* React commits the state a click handler sets before the next event is   *)
(* dispatched, so the closure a click runs reads the current state.        *)
(***************************************************************************)
\* Mutant of OpenBoxButton: the button is rendered in every view.
OpenBoxButton_AnyView == ~(~isAuthenticated \/ ~scratchCardData.loaded)

\* "Abrir Box": rendered in the idle view (line 444), disabled at line 486.
OpenBoxButton ==
  /\ gameState = "idle"
  /\ ~(~isAuthenticated \/ ~scratchCardData.loaded)

\* "Girar Novamente": rendered in the completed view (line 569) unless a
\* product was won (line 601), disabled at line 611.
PlayAgainButton ==
  /\ gameState = "completed"
  /\ ~(hasWon /\ gameResult.prize # 0 /\ PrizePool[gameResult.prize].type = "PRODUCT")
  /\ ~(~isAuthenticated \/ ~scratchCardData.loaded)

\* The early return of lines 293 and 385, negated.
HandlerGuard == ~(~isAuthenticated \/ playingGame \/ ~scratchCardData.loaded)

\* Mutant of OpenBoxBody: setGameState('loading') is left out.
OpenBoxBody_NoLoading ==
  /\ gameState' = gameState
  /\ showConfetti' = FALSE
  /\ hasWon' = FALSE
  /\ totalWinnings' = 0
  /\ gameResult' = NullResult
  /\ winningItem' = NoItem
  /\ playingGame' = (IF token THEN TRUE ELSE playingGame)
  /\ playCalls' = Append(playCalls, [fetch |-> token, closureResult |-> gameResult])
  /\ UNCHANGED <<probe, authVars, scratchCardData, error, spinDuration, spinTimers,
                 refreshVars, toast>>

\* Mutant of OpenBoxBody: setHasWon(false) is left out.
OpenBoxBody_KeepsWin ==
  /\ gameState' = "loading"
  /\ showConfetti' = FALSE
  /\ hasWon' = hasWon
  /\ totalWinnings' = 0
  /\ gameResult' = NullResult
  /\ winningItem' = NoItem
  /\ playingGame' = (IF token THEN TRUE ELSE playingGame)
  /\ playCalls' = Append(playCalls, [fetch |-> token, closureResult |-> gameResult])
  /\ UNCHANGED <<probe, authVars, scratchCardData, error, spinDuration, spinTimers,
                 refreshVars, toast>>

\* handleOpenBox up to `await playGame(token || '')`, lines 295-303, with
\* playGame up to its first await, lines 238-242: without a token playGame
\* returns its error at once and sends nothing.
OpenBoxBody ==
  /\ gameState' = "loading"
  /\ showConfetti' = FALSE
  /\ hasWon' = FALSE
  /\ totalWinnings' = 0
  /\ gameResult' = NullResult
  /\ winningItem' = NoItem
  /\ playingGame' = (IF token THEN TRUE ELSE playingGame)
  /\ playCalls' = Append(playCalls, [fetch |-> token, closureResult |-> gameResult])
  /\ UNCHANGED <<probe, authVars, scratchCardData, error, spinDuration, spinTimers,
                 refreshVars, toast>>

\* A click on "Abrir Box" (line 485).
handleOpenBox ==
  /\ OpenBoxButton
  /\ HandlerGuard
  /\ OpenBoxBody
  /\ UNCHANGED reelVars

\* Mutant of handlePlayAgain: setRouletteItems([]) is left out.
handlePlayAgain_KeepsReel ==
  /\ PlayAgainButton
  /\ HandlerGuard
  /\ rouletteItems' = rouletteItems
  /\ isSpinning' = FALSE
  /\ finalRotation' = 0
  /\ OpenBoxBody

\* A click on "Girar Novamente" (line 610): lines 385-398.
handlePlayAgain ==
  /\ PlayAgainButton
  /\ HandlerGuard
  /\ rouletteItems' = <<>>
  /\ isSpinning' = FALSE
  /\ finalRotation' = 0
  /\ OpenBoxBody

(***************************************************************************)
(* The rest of handleOpenBox, after `await playGame` (lines 305-339).      *)
(***************************************************************************)
\* Mutant of PlayErrorBranch: the error branch ends the spin as completed.
PlayErrorBranch_Completed(message) ==
  /\ gameState' = "completed"
  /\ toast' = message
  /\ UNCHANGED <<probe, authVars, scratchCardData, error, reelVars, spinVars,
                 spinDuration, spinTimers, refreshVars>>

\* Mutant of PlayErrorBranch: the error is logged and no toast is shown.
PlayErrorBranch_Silent(message) ==
  /\ gameState' = "idle"
  /\ toast' = toast
  /\ UNCHANGED <<probe, authVars, scratchCardData, error, reelVars, spinVars,
                 spinDuration, spinTimers, refreshVars>>

\* The error branch, lines 336-339.
PlayErrorBranch(message) ==
  /\ gameState' = "idle"
  /\ toast' = message
  /\ UNCHANGED <<probe, authVars, scratchCardData, error, reelVars, spinVars,
                 spinDuration, spinTimers, refreshVars>>

\* playGame without a token (line 238): no request was sent.
playGameNoAuth ==
  \E k \in DOMAIN playCalls :
    /\ ~playCalls[k].fetch
    /\ playCalls' = RemoveAt(playCalls, k)
    /\ UNCHANGED playingGame
    /\ PlayErrorBranch("auth")

\* Mutant of playGameFails: the finally of line 264 is left out.
playGameFails_KeepsFlag ==
  \E k \in DOMAIN playCalls, message \in {"business", "network"} :
    /\ playCalls[k].fetch
    /\ playCalls' = RemoveAt(playCalls, k)
    /\ playingGame' = playingGame
    /\ PlayErrorBranch(message)

\* The play request fails: a reply with success = false (lines 256-258) or
\* an exception of fetch or json (lines 260-262); finally, line 264.
playGameFails ==
  \E k \in DOMAIN playCalls, message \in {"business", "network"} :
    /\ playCalls[k].fetch
    /\ playCalls' = RemoveAt(playCalls, k)
    /\ playingGame' = FALSE
    /\ PlayErrorBranch(message)

\* startRouletteSpin(targetItem, items), lines 343-381, up to setTimeout;
\* target is the index of targetItem in items, 0 for null.
startRouletteSpin(target, items, closureResult) ==
  IF target = 0 \/ Len(items) = 0
  THEN UNCHANGED <<isSpinning, finalRotation, spinDuration, spinTimers>>
  ELSE /\ isSpinning' = TRUE
       /\ finalRotation' =
            FinalRotationOf(items, FindIndexById(items, items[target].id))
       /\ spinDuration' = duration
       /\ spinTimers' = Append(spinTimers, [closureResult |-> closureResult])

\* The play request answers with a result (lines 254-255, 264, 307-335).
\* The timer's callback reads gameResult of the render that was clicked.
playGameSucceeds ==
  \E k \in DOMAIN playCalls, result \in GameResults :
    /\ playCalls[k].fetch
    /\ playCalls' = RemoveAt(playCalls, k)
    /\ playingGame' = FALSE
    /\ gameResult' = result
    /\ \E items \in generateRouletteItems(scratchCardData.prizes) :
         \E target \in TargetIndexes(result, items) :
           LET marked == IF result.isWinner /\ result.prize # 0 /\ target # 0
                         THEN [items EXCEPT ![target].isWinning = TRUE]
                         ELSE items
           IN  /\ rouletteItems' = marked
               /\ winningItem' = IF result.isWinner /\ result.prize # 0 /\ target # 0
                                 THEN marked[target]
                                 ELSE winningItem
               /\ gameState' = "spinning"
               /\ startRouletteSpin(target, marked, playCalls[k].closureResult)
    /\ UNCHANGED <<probe, authVars, scratchCardData, error, showConfetti, hasWon,
                   totalWinnings, refreshVars, toast>>

\* Mutant of refreshUserBalance: the balance is not refreshed.
refreshUserBalance_Skipped == UNCHANGED refreshCalls

\* refreshUserBalance up to its await, lines 270-279.
refreshUserBalance ==
  IF token
  THEN /\ refreshCalls < MaxRefresh
       /\ refreshCalls' = refreshCalls + 1
  ELSE UNCHANGED refreshCalls

(***************************************************************************)
(* The callback of the reveal timer, lines 368-380, with refreshUserBalance *)
(* up to its await (lines 270-273). token is not null here: the spin was   *)
(* started by a render that had one.                                       *)
(***************************************************************************)
revealTimer ==
  \E k \in DOMAIN spinTimers :
    LET closureResult == spinTimers[k].closureResult
        won == ~closureResult.isNull /\ closureResult.isWinner
    IN  /\ spinTimers' = RemoveAt(spinTimers, k)
        /\ isSpinning' = FALSE
        /\ gameState' = "completed"
        /\ IF won
           THEN /\ confettiTimers < MaxConfettiTimers
                /\ hasWon' = TRUE
                /\ totalWinnings' = ParseFloat(closureResult.amountWon)
                /\ showConfetti' = TRUE
                /\ confettiTimers' = confettiTimers + 1
           ELSE UNCHANGED <<hasWon, totalWinnings, showConfetti, confettiTimers>>
        /\ refreshUserBalance
        /\ UNCHANGED <<probe, authVars, scratchCardData, error, rouletteItems,
                       finalRotation, gameResult, winningItem, playingGame,
                       spinDuration, playCalls, toast>>

\* Line 376.
confettiTimer ==
  /\ confettiTimers > 0
  /\ confettiTimers' = confettiTimers - 1
  /\ showConfetti' = FALSE
  /\ UNCHANGED <<probe, authVars, scratchCardData, error, gameState, reelVars, hasWon,
                 totalWinnings, gameResult, winningItem, playingGame,
                 spinDuration, playCalls, spinTimers, refreshCalls, toast>>

\* The profile request answers or fails (lines 281-288): updateUser replaces
\* the user object by the fresh one, a failure is logged; the page's own
\* state is left alone either way.
refreshUserBalanceDone ==
  /\ refreshCalls > 0
  /\ refreshCalls' = refreshCalls - 1
  /\ UNCHANGED <<probe, authVars, scratchCardData, error, gameState, reelVars, spinVars,
                 playingGame, spinDuration, playCalls, spinTimers,
                 confettiTimers, toast>>

Next ==
  \/ fetchScratchCardDataOk
  \/ fetchScratchCardDataFails
  \/ handleOpenBox
  \/ handlePlayAgain
  \/ playGameNoAuth
  \/ playGameFails
  \/ playGameSucceeds
  \/ revealTimer
  \/ confettiTimer
  \/ refreshUserBalanceDone

Spec == Init /\ [][Next]_vars

(***************************************************************************)
(* The timers fire and the requests answer: weak fairness of every step    *)
(* that is not a click.                                                    *)
(***************************************************************************)
FairSpec ==
  /\ Spec
  /\ WF_vars(playGameNoAuth)
  /\ WF_vars(playGameFails \/ playGameSucceeds)
  /\ WF_vars(revealTimer)
  /\ WF_vars(confettiTimer)
  /\ WF_vars(refreshUserBalanceDone)

(***************************************************************************)
(* Properties.                                                             *)
(***************************************************************************)
\* The prize of the current result, for a win that names one.
WonPrize == PrizePool[gameResult.prize]

IsWinWithPrize == ~gameResult.isNull /\ gameResult.isWinner /\ gameResult.prize # 0

\* The fetches of the play request that have not answered.
PlayRequestsInFlight == {k \in DOMAIN playCalls : playCalls[k].fetch}

\* C1: when a spin is completed, hasWon is isWinner of the result of that
\* spin (gameResult, set at line 308 from the play request's answer), and for
\* a win totalWinnings is that result's amountWon.
C1_RevealMatchesResult ==
  gameState = "completed" =>
    /\ hasWon = gameResult.isWinner
    /\ gameResult.isWinner => totalWinnings = ParseFloat(gameResult.amountWon)

\* C2: when the current result is a win with a prize and a landing cell is
\* set, the landing cell has the prize's category and the prize's value of
\* that category (value for MONEY, redemption value for PRODUCT).
C2_LandingCellIsThePrize ==
  (IsWinWithPrize /\ winningItem # NoItem) =>
    /\ winningItem.type = WonPrize.type
    /\ ParseFloat(winningItem.value) = EffectiveValue(WonPrize)

\* C3: a win with a prize that no cell of the reel carries does not go on to
\* spin without a landing cell: a landing cell with the prize's category and
\* value exists, or the spin was failed (the session is not spinning).
C3_DegradedMatchHandled ==
  (/\ gameState \in {"spinning", "completed"}
   /\ IsWinWithPrize
   /\ \A i \in DOMAIN rouletteItems :
        ~(/\ rouletteItems[i].type = WonPrize.type
          /\ ParseFloat(rouletteItems[i].value) = EffectiveValue(WonPrize)))
  => (/\ winningItem # NoItem
      /\ winningItem.type = WonPrize.type
      /\ ParseFloat(winningItem.value) = EffectiveValue(WonPrize))

\* C4: every loading is followed by completed or idle, and every spinning by
\* completed, when requests answer and timers fire.
C4_SpinRunsToCompletion ==
  /\ (gameState = "loading") ~> (gameState \in {"completed", "idle"})
  /\ (gameState = "spinning") ~> (gameState = "completed")

\* C5: no state is spinning with an empty reel.
C5_NoSpinOnEmptyReel == ~(gameState = "spinning" /\ rouletteItems = <<>>)

C7_SpinningAcceptsNoAction ==
  [][gameState = "spinning" =>
       \/ /\ gameState' = "spinning"
          /\ UNCHANGED <<reelVars, spinVars, spinDuration, playingGame,
                         playCalls, spinTimers>>
       \/ /\ gameState' = "completed"
          /\ Len(spinTimers') < Len(spinTimers)]_vars

\* Spinning with the reveal timer pending, while the guard of the handlers
\* (user, catalog, playingGame) would let a call through.
C7_Witness ==
  /\ gameState = "spinning"
  /\ spinTimers # <<>>
  /\ HandlerGuard
  /\ ~ENABLED handleOpenBox
  /\ ~ENABLED handlePlayAgain

\* C8: gameState changes only by idle -> loading, loading -> spinning,
\* loading -> idle, spinning -> completed and completed -> loading.
C8_FiveTransitions ==
  [][gameState' # gameState =>
       <<gameState, gameState'>> \in
         {<<"idle", "loading">>, <<"loading", "spinning">>,
          <<"loading", "idle">>, <<"spinning", "completed">>,
          <<"completed", "loading">>}]_vars

\* Loading entered from completed: the pending call was made by a replay,
\* after a spin, a failure or not, whose toast is still the last one.
C8_Witness ==
  /\ gameState = "loading"
  /\ Len(playCalls) = 1
  /\ ~playCalls[1].closureResult.isNull
  /\ toast # "none"

\* C9: a step in which a pending play call ends without a result leads to
\* idle with an error toast, an empty reel, no landing cell, no result, no
\* win, no reveal timer and no new balance refresh.
C9_FailedPlayLeavesNoSpin ==
  [][(Len(playCalls') < Len(playCalls) /\ gameResult' = NullResult) =>
       /\ gameState' = "idle"
       /\ toast' # "none"
       /\ rouletteItems' = <<>>
       /\ winningItem' = NoItem
       /\ ~hasWon'
       /\ totalWinnings' = 0
       /\ ~isSpinning'
       /\ spinTimers' = <<>>
       /\ refreshCalls' = refreshCalls
       /\ playingGame' = FALSE]_vars

\* Back in idle after a replay's play request failed on the network, the
\* balance refresh of the spin before still in flight.
C9_Witness ==
  /\ gameState = "idle"
  /\ toast = "network"
  /\ refreshCalls > 0
  /\ playCalls = <<>>

\* C10: without a user, without a token or without a catalog the session
\* never is in loading.
C10_NoLoadingWithoutAuth ==
  (~user \/ ~token \/ ~scratchCardData.loaded) => gameState # "loading"

(***************************************************************************)
(* The pure functions on their own: getRarityFromValue (lines 195-200) and *)
(* generateRouletteItems (lines 203-234) are called once on an input drawn *)
(* from a bounded set; the page stays as it opens.                         *)
(***************************************************************************)
MaxProbeValue == 1001
MaxProbePrizes == 2

\* The numbers getRarityFromValue is called on, and NaN.
ProbeValues == 0..MaxProbeValue \cup {NaN}

\* The prizes of PrizePool, a rare MONEY prize, and a PRODUCT prize that has
\* no value field, only a redemption value.
ProbePool ==
  PrizePool \o
  << [id |-> 6, type |-> "MONEY",   value |-> 50,      redemption_value |-> NoValue, is_active |-> TRUE],
     [id |-> 7, type |-> "PRODUCT", value |-> NoValue, redemption_value |-> 10,      is_active |-> TRUE] >>

\* The arrays generateRouletteItems is called on: at most MaxProbePrizes
\* prizes of distinct ids, in any order.
ProbeCatalogs ==
  {[i \in DOMAIN ids |-> ProbePool[ids[i]]] :
     ids \in {f \in UNION {[1..m -> DOMAIN ProbePool] : m \in 0..MaxProbePrizes} :
                \A i, j \in DOMAIN f : i # j => f[i] # f[j]}}

FnInit ==
  /\ probe \in {[NoProbe EXCEPT !.fn = "getRarityFromValue", !.value = v] :
                  v \in ProbeValues}
          \cup {[NoProbe EXCEPT !.fn = "generateRouletteItems", !.prizes = c] :
                  c \in ProbeCatalogs}
  /\ user = FALSE
  /\ token = FALSE
  /\ scratchCardData = [loaded |-> FALSE, prizes |-> <<>>]
  /\ error = FALSE
  /\ gameState = "idle"
  /\ rouletteItems = <<>>
  /\ showConfetti = FALSE
  /\ hasWon = FALSE
  /\ totalWinnings = 0
  /\ gameResult = NullResult
  /\ playingGame = FALSE
  /\ winningItem = NoItem
  /\ isSpinning = FALSE
  /\ spinDuration = 0
  /\ finalRotation = 0
  /\ playCalls = <<>>
  /\ spinTimers = <<>>
  /\ confettiTimers = 0
  /\ refreshCalls = 0
  /\ toast = "none"

\* A call of getRarityFromValue(value), lines 195-200.
CallGetRarityFromValue ==
  /\ probe.fn = "getRarityFromValue"
  /\ ~probe.done
  /\ probe' = [probe EXCEPT !.done = TRUE,
                            !.rarity = getRarityFromValue(probe.value)]
  /\ UNCHANGED pageVars

\* A call of generateRouletteItems(prizes), lines 203-234.
CallGenerateRouletteItems ==
  /\ probe.fn = "generateRouletteItems"
  /\ ~probe.done
  /\ \E items \in generateRouletteItems(probe.prizes) :
       probe' = [probe EXCEPT !.done = TRUE, !.items = items]
  /\ UNCHANGED pageVars

FnNext == CallGetRarityFromValue \/ CallGenerateRouletteItems

FnSpec == FnInit /\ [][FnNext]_vars

\* C11: every spin attempt has exactly one play request in flight while the
\* session is loading.
C11_OneRequestPerAttempt ==
  gameState = "loading" => Cardinality(PlayRequestsInFlight) = 1

\* C12: in loading, the reel is empty, the landing cell null, the result
\* null, hasWon false, totalWinnings 0 and the target offset 0; so it is
\* after a replay from completed.
C12_ReplayClearsTheSpin ==
  gameState = "loading" =>
    /\ rouletteItems = <<>>
    /\ winningItem = NoItem
    /\ gameResult = NullResult
    /\ ~hasWon
    /\ totalWinnings = 0
    /\ finalRotation = 0

\* Loading after a replay: the pending call was made from a render that had
\* a result, and that result was a loss.
C12_Witness ==
  /\ gameState = "loading"
  /\ Len(playCalls) = 1
  /\ ~playCalls[1].closureResult.isNull
  /\ ~playCalls[1].closureResult.isWinner

\* C13: a step sends a balance refresh exactly when it enters completed, and
\* then sends one; a step in which a balance refresh ends, answered or
\* failed, leaves gameState and the data of the spin alone.
C13_OneRefreshPerCompletion ==
  [][/\ (refreshCalls' > refreshCalls) <=>
          (gameState # "completed" /\ gameState' = "completed")
     /\ refreshCalls' > refreshCalls => refreshCalls' = refreshCalls + 1
     /\ refreshCalls' < refreshCalls =>
          UNCHANGED <<gameState, rouletteItems, winningItem, gameResult,
                      hasWon, totalWinnings>>]_vars

\* A second spin is completed while its balance refresh is in flight.
C13_Witness ==
  /\ gameState = "completed"
  /\ refreshCalls = 1
  /\ spinTimers = <<>>
  /\ ~gameResult.isNull

\* C14: in loading and in spinning hasWon is false, totalWinnings is 0 and
\* the confetti is off; a step sets one of them only by leading from spinning
\* to completed.
C14_NoRevealBeforeTheEnd ==
  /\ [](gameState \in {"loading", "spinning"} =>
          ~hasWon /\ totalWinnings = 0 /\ ~showConfetti)
  /\ [][((hasWon' /\ ~hasWon) \/ (showConfetti' /\ ~showConfetti)
          \/ (totalWinnings' # 0 /\ totalWinnings = 0)) =>
         (gameState = "spinning" /\ gameState' = "completed")]_vars

\* Spinning again after a spin that showed a win, its confetti timer still
\* pending.
C14_Witness ==
  /\ gameState = "spinning"
  /\ spinTimers # <<>>
  /\ confettiTimers > 0
  /\ ~gameResult.isNull

\* The index, from 0, of the cell the target offset centres (lines 355-359
\* solved for targetIndex).
LandingIndex ==
  (finalRotation - (fullRotations * Len(rouletteItems) * itemWidth)
     + (containerWidth \div 2) - (itemWidth \div 2)) \div itemWidth

IsLossSpin ==
  /\ gameState = "spinning"
  /\ spinTimers # <<>>
  /\ ~gameResult.isNull
  /\ ~gameResult.isWinner

\* C15: on a loss the cell the spin lands on is common when the reel has a
\* common cell, and is the first cell of the reel when it has none.
C15_LossLandsOnCommon ==
  IsLossSpin =>
    IF \E i \in DOMAIN rouletteItems : rouletteItems[i].rarity = "common"
    THEN rouletteItems[LandingIndex + 1].rarity = "common"
    ELSE LandingIndex = 0

\* A loss on a reel with common and other cells, its first cell not common.
C15_Witness ==
  /\ IsLossSpin
  /\ rouletteItems[1].rarity # "common"
  /\ rouletteItems[LandingIndex + 1].rarity = "common"

\* A loss on a reel of several cells, none of them common.
C15_WitnessNoCommon ==
  /\ IsLossSpin
  /\ Len(rouletteItems) > 1
  /\ \A i \in DOMAIN rouletteItems : rouletteItems[i].rarity # "common"
  /\ LandingIndex = 0

IsRarityCall == probe.fn = "getRarityFromValue" /\ probe.done

IsExpansion == probe.fn = "generateRouletteItems" /\ probe.done

\* C16: getRarityFromValue of a number is legendary from 1000, epic from 100
\* to below 1000, rare from 10 to below 100 and common below 10.
C16_ClosedLowerBounds ==
  (IsRarityCall /\ probe.value # NaN) =>
    /\ probe.value >= 1000 => probe.rarity = "legendary"
    /\ (100 <= probe.value /\ probe.value < 1000) => probe.rarity = "epic"
    /\ (10 <= probe.value /\ probe.value < 100) => probe.rarity = "rare"
    /\ probe.value < 10 => probe.rarity = "common"

\* getRarityFromValue was called on a boundary value.
C16_Witness ==
  /\ IsRarityCall
  /\ probe.value = 100
  /\ probe.rarity = "epic"

\* The indexes of the cells of the prize pid in items.
CellsOfPrize(items, pid) == {i \in DOMAIN items : items[i].id[1] = pid}

\* The repetition table of the specification.
ExpectedCount(rarity) ==
  IF rarity = "common" THEN 8
  ELSE IF rarity = "rare" THEN 4
  ELSE IF rarity = "epic" THEN 2
  ELSE 1

\* C17: in the reel of a catalog of distinct prize ids every prize has cells
\* of one rarity, 8 of them if common, 4 if rare, 2 if epic, 1 if legendary,
\* with the repetition indexes from 0 to that count less one; every cell is
\* a cell of a prize of the catalog, and no two cells have the same id.
C17_RepetitionCounts ==
  IsExpansion =>
    /\ \A k \in DOMAIN probe.prizes :
         LET cells == CellsOfPrize(probe.items, probe.prizes[k].id)
         IN  \E r \in {"common", "rare", "epic", "legendary"} :
               /\ \A i \in cells : probe.items[i].rarity = r
               /\ Cardinality(cells) = ExpectedCount(r)
               /\ {probe.items[i].id[2] : i \in cells} = 0..(ExpectedCount(r) - 1)
    /\ \A i \in DOMAIN probe.items :
         \E k \in DOMAIN probe.prizes : probe.items[i].id[1] = probe.prizes[k].id
    /\ \A i, j \in DOMAIN probe.items :
         i # j => probe.items[i].id # probe.items[j].id

\* The reel of a rare and an epic prize, not in the order of the expansion.
C17_Witness ==
  /\ IsExpansion
  /\ Len(probe.prizes) = 2
  /\ Len(probe.items) = 6
  /\ probe.items[1].rarity = "epic"
  /\ probe.items[2].rarity = "rare"
  /\ probe.prizes[1].id = 6

\* C18: no cell of a reel is a cell of a prize whose is_active is false.
C18_OnlyActivePrizes ==
  IsExpansion =>
    \A i \in DOMAIN probe.items : ProbePool[probe.items[i].id[1]].is_active

\* C19: the rarity of every cell of a reel is the rarity of the value of its
\* prize's category: value for MONEY, redemption value otherwise.
C19_RarityOfEffectiveValue ==
  IsExpansion =>
    \A i \in DOMAIN probe.items :
      probe.items[i].rarity =
        getRarityFromValue(EffectiveValue(ProbePool[probe.items[i].id[1]]))

\* The cells of the reel with the category of the prize won and the value of
\* that category.
PrizeCells ==
  {i \in DOMAIN rouletteItems :
     /\ rouletteItems[i].type = WonPrize.type
     /\ ParseFloat(rouletteItems[i].value) = EffectiveValue(WonPrize)}

\* C20: after a win with a prize whose category and value of that category
\* some cell of the reel has, the landing cell is the first of these cells
\* and it is the only cell with isWinning set.
C20_FirstPrizeCellIsLanding ==
  (gameState \in {"spinning", "completed"} /\ IsWinWithPrize /\ PrizeCells # {}) =>
    LET first == CHOOSE i \in PrizeCells : \A j \in PrizeCells : i <= j
    IN  /\ winningItem # NoItem
        /\ winningItem.id = rouletteItems[first].id
        /\ \A i \in DOMAIN rouletteItems : rouletteItems[i].isWinning <=> (i = first)

\* A spin is running: its reveal timer is pending.
IsSpin == gameState = "spinning" /\ spinTimers # <<>>

\* C21: while a spin runs the reel has N >= 1 cells, the target offset is
\* 3*N*120 + i*120 - 250 + 60 for the index i, from 0, of a cell of the reel,
\* which after a win with a prize is the landing cell, and the spin duration
\* is 4000.
C21_TargetOffset ==
  IsSpin =>
    LET N == Len(rouletteItems)
        Offset(i) == (3 * N * 120) + (i * 120) - 250 + 60
    IN  /\ N >= 1
        /\ spinDuration = 4000
        /\ \E i \in 0..(N - 1) :
             /\ finalRotation = Offset(i)
             /\ IsWinWithPrize =>
                  /\ rouletteItems[i + 1].isWinning
                  /\ rouletteItems[i + 1].id = winningItem.id

\* A win lands on a cell that is not the first one of its reel.
C21_Witness ==
  /\ IsSpin
  /\ IsWinWithPrize
  /\ Len(rouletteItems) > 2
  /\ ~rouletteItems[1].isWinning
  /\ ~rouletteItems[2].isWinning

\* The point of the track under the centre of the container, when the
\* track is moved left by finalRotation (lines 538-540, 529).
TrackCentre == finalRotation + (containerWidth \div 2)

\* The index, from 0, of the cell of the rendered track that a point of the
\* track lies in; -1 when the point is past the last cell. The track is
\* rouletteItems rendered once, 120 px a cell (lines 544-548).
RenderedCellAt(x) ==
  IF x >= 0 /\ x < Len(rouletteItems) * itemWidth THEN x \div itemWidth ELSE -1

\* C22: while a spin runs, the centre of the container lies in the cell of
\* the rendered track that the spin lands on.
C22_CentreOnLandingCell ==
  IsSpin => RenderedCellAt(TrackCentre) = LandingIndex

\* C23: when gameState is spinning no play request and no balance refresh
\* is in flight.
C23_NoNetworkWhileSpinning ==
  gameState = "spinning" => (PlayRequestsInFlight = {} /\ refreshCalls = 0)

\* C24: isSpinning is true exactly when gameState is spinning, and then a
\* reveal timer is pending.
C24_FlagAgreesWithState ==
  /\ isSpinning <=> (gameState = "spinning")
  /\ gameState = "spinning" => spinTimers # <<>>

\* C25: playingGame is true exactly when a play request is in flight; so it
\* is false after every answer of the request.
C25_InFlightFlagAccurate ==
  playingGame <=> (PlayRequestsInFlight # {})

\* A play request is in flight after one that failed with an exception.
C25_Witness ==
  /\ playingGame
  /\ toast = "network"
  /\ gameState = "loading"
  /\ PlayRequestsInFlight # {}
=============================================================================
